---- MODULE Spec2Model ----
(***************************************************************************)
(* kr/walk: the iterator-style directory walker of walk.go.                *)
(*                                                                         *)
(* The Walker is modelled with its Go slice semantics: the pending-work    *)
(* stack is a slice header (a length) over a backing array whose capacity  *)
(* only grows, and w.stack[:k] re-slices that array without clearing it.   *)
(* The filesystem collaborator is the function fsys from directory paths   *)
(* to what ReadDir returns for them (entries in listing order and an       *)
(* error flag), together with the outcome of Stat on the root.             *)
(***************************************************************************)
EXTENDS Integers, Sequences, FiniteSets, TLC

VARIABLES
    root,       \* the root path given to New
    rootStat,   \* what fs.Stat(fsys, root) answers: "dir", "file" or "err"
    fsys,       \* the tree: directory path -> [ents, fail] returned by ReadDir
    cur,        \* Walker.cur
    stack,      \* Walker.stack: [arr |-> backing array, len |-> slice length]
    descend,    \* Walker.descend
    panicked,   \* a run-time panic happened (nil dereference, slice out of range)
    ret,        \* what the last call of Next returned: "none", "true", "false"
    lastOp,     \* the last operation: "New", "Next", "SkipDir", "SkipParent", "Mutate"
    out,        \* history: the visits observed after each Next that returned true
    calls,      \* history: the calls made to the filesystem, in order
    skips,      \* history: the SkipDir/SkipParent calls made, in order
    mutations   \* history: number of changes made to the tree since construction

vars == <<root, rootStat, fsys, cur, stack, descend, panicked, ret, lastOp, out,
          calls, skips, mutations>>

----------------------------------------------------------------------------
\* Bounds of the model.

\* Largest number of entries (files and directories below the root) of a tree.
MaxNodes == 3

\* Largest number of SkipDir/SkipParent calls the consumer makes in one run.
MaxSkips == 2

\* Largest number of changes made to the tree after the walk has ended.
MaxMutations == 1

\* Entry names.
Names == {"a", "b"}

\* The name sequences of the listings ReadDir returns at construction: no
\* entry, one entry, and two entries in lexical and in reverse order.  (The
\* walker never compares names, so a lone entry is always named "a".)
ListingNames == {<<>>, <<"a">>, <<"a", "b">>, <<"b", "a">>}

\* Root paths given to New.
Roots == {<<".">>}

----------------------------------------------------------------------------
\* Errors.  nil is the empty tuple; every other error is a tagged tuple.

Nil == <<>>

errUsage == <<"walk: method Next must be called first">>

\* The error of a failed fs.Stat on path p.
StatErr(p) == <<"stat", p>>

\* The error of a failed ReadDir on path p.
ReadDirErr(p) == <<"readdir", p>>

----------------------------------------------------------------------------
\* Paths are sequences of path elements; "." is <<".">>, "" is <<>>.

\* path.Join(p, name) for a clean p and a plain name: Join cleans its result,
\* so joining onto "." (or onto "") yields the bare name.
Join(p, name) == IF p = <<".">> \/ p = <<>> THEN <<name>> ELSE Append(p, name)

\* p is a proper descendant of directory d in the walk's path naming.
Under(p, d) ==
    IF d = <<".">> THEN p # <<".">> /\ p # <<>>
    ELSE /\ Len(p) > Len(d)
         /\ SubSeq(p, 1, Len(d)) = d

----------------------------------------------------------------------------
\* The filesystem collaborator.

EmptyFS == [p \in {} |-> 0]

\* One directory entry as ReadDir returns it.
DirEntry(name, isDir) == [name |-> name, dir |-> isDir]

\* The listings with the names ns: every choice of file or directory for
\* each name.
Entries(ns) ==
    {[i \in 1..Len(ns) |-> DirEntry(ns[i], k[i])] : k \in [1..Len(ns) -> BOOLEAN]}

\* The directories of the listing ents, in listing order.
RECURSIVE DirNames(_)
DirNames(ents) ==
    IF ents = <<>> THEN <<>>
    ELSE (IF ents[1].dir THEN <<ents[1].name>> ELSE <<>>) \o DirNames(Tail(ents))

\* The subtrees below the directories ds of directory p, with at most n
\* entries in all: records [sub, size], sub the ReadDir answers below p.
RECURSIVE Subtrees(_, _, _), Listings(_, _)
Subtrees(p, ds, n) ==
    IF ds = <<>> THEN {[sub |-> EmptyFS, size |-> 0]}
    ELSE UNION {
           {[sub  |-> (Join(p, ds[1]) :> [ents |-> d.ents, fail |-> f]) @@ d.sub @@ r.sub,
             size |-> d.size + r.size]
              : r \in Subtrees(p, Tail(ds), n - d.size), f \in BOOLEAN}
           : d \in Listings(Join(p, ds[1]), n)}

\* The listings of directory p with the trees below them, of at most n
\* entries in all: records [ents, sub, size].
Listings(p, n) ==
    UNION {
      UNION {
        {[ents |-> es, sub |-> t.sub, size |-> Len(es) + t.size]
           : t \in Subtrees(p, DirNames(es), n - Len(es))}
        : es \in Entries(ns)}
      : ns \in {q \in ListingNames : Len(q) <= n}}

\* Every tree rooted at directory r with at most MaxNodes entries.
Trees(r) ==
    {(r :> [ents |-> l.ents, fail |-> f]) @@ l.sub
        : l \in Listings(r, MaxNodes), f \in BOOLEAN}

\* fs.ReadDir(fsys, p): the entries and the error of directory p.  A path the
\* tree holds no directory for answers no entries and an error.
ReadDir(fs, p) ==
    IF p \in DOMAIN fs
    THEN [ents |-> fs[p].ents, err |-> IF fs[p].fail THEN ReadDirErr(p) ELSE Nil]
    ELSE [ents |-> <<>>, err |-> ReadDirErr(p)]

\* The tree after a file is added at the end of the listing of directory p
\* (fstest.MapFS: tree["a/b"] = &fstest.MapFile{}).
AddFile(fs, p, name) == [fs EXCEPT ![p].ents = Append(@, DirEntry(name, FALSE))]

\* The names a listing holds.
EntryNames(ents) == {ents[i].name : i \in 1..Len(ents)}

----------------------------------------------------------------------------
\* The walker's data.

\* visit{path, info, err, skipDir, skipPar}.  info is "dir" or "file" for an
\* entry, "nilinfo" for infoDirEntry{nil} (the root after a failed Stat) and
\* "nil" for the nil interface of a zero visit.
Visit(path, info, err, skipDir, skipPar) ==
    [path |-> path, info |-> info, err |-> err, skipDir |-> skipDir, skipPar |-> skipPar]

\* The zero value of visit, which fills the unused part of a fresh array.
ZeroVisit == Visit(<<>>, "nil", Nil, 0, 0)

\* infoDirEntry{info} over the answer of fs.Stat.
infoDirEntry(stat) == IF stat = "err" THEN "nilinfo" ELSE stat

\* info.IsDir() is defined for an entry with file information behind it;
\* on "nilinfo" and "nil" the call dereferences nil.
CanIsDir(info) == info \in {"dir", "file"}

IsDir(info) == info = "dir"

\* The live elements of a slice.
Live(s) == SubSeq(s.arr, 1, s.len)

\* cap(s).
Cap(s) == Len(s.arr)

\* append(s, v): in place while the capacity lasts, otherwise into a fresh
\* array of twice the capacity holding the live elements and zero values.
SliceAppend(s, v) ==
    IF s.len < Cap(s)
    THEN [arr |-> [s.arr EXCEPT ![s.len + 1] = v], len |-> s.len + 1]
    ELSE LET newcap == IF Cap(s) = 0 THEN 1 ELSE 2 * Cap(s)
         IN  [arr |-> Live(s) \o <<v>> \o [i \in 1..(newcap - s.len - 1) |-> ZeroVisit],
              len |-> s.len + 1]

\* s[:k] for 0 <= k <= cap(s): the array is kept as it is, so a k above
\* len(s) brings back whatever the array still holds there.
Reslice(s, k) == [arr |-> s.arr, len |-> k]

\* Faulty variant: the entries pushed first entry first.
RECURSIVE PushForward(_, _, _, _, _)
PushForward(s, p, dir, j, n) ==
    IF j > Len(dir) THEN s
    ELSE PushForward(
            SliceAppend(s, Visit(Join(p, dir[j].name),
                                 IF dir[j].dir THEN "dir" ELSE "file",
                                 Nil, s.len, n)),
            p, dir, j + 1, n)

PushChildren_Forward(s, p, dir, i, n) == PushForward(s, p, dir, 1, n)

\* Faulty variant: every entry marked to skip back to the start of its directory.
RECURSIVE PushChildren_MarkStart(_, _, _, _, _)
PushChildren_MarkStart(s, p, dir, i, n) ==
    IF i = 0 THEN s
    ELSE PushChildren_MarkStart(
            SliceAppend(s, Visit(Join(p, dir[i].name),
                                 IF dir[i].dir THEN "dir" ELSE "file",
                                 Nil, n, n)),
            p, dir, i - 1, n)

\* Faulty variant: every entry marked with the stack length after its own push.
RECURSIVE PushChildren_MarkAfter(_, _, _, _, _)
PushChildren_MarkAfter(s, p, dir, i, n) ==
    IF i = 0 THEN s
    ELSE PushChildren_MarkAfter(
            SliceAppend(s, Visit(Join(p, dir[i].name),
                                 IF dir[i].dir THEN "dir" ELSE "file",
                                 Nil, s.len + 1, n)),
            p, dir, i - 1, n)

\* The loop of Next over the entries dir[i], ..., dir[1] of directory path p,
\* last entry first; n is the stack length when the loop started.
RECURSIVE PushChildren(_, _, _, _, _)
PushChildren(s, p, dir, i, n) ==
    IF i = 0 THEN s
    ELSE PushChildren(
            SliceAppend(s, Visit(Join(p, dir[i].name),
                                 IF dir[i].dir THEN "dir" ELSE "file",
                                 Nil, s.len, n)),
            p, dir, i - 1, n)

\* Walker.Path, Walker.Entry and Walker.Err on current visit c.
Path(c) == c.path

Entry(c) == c.info

Err(c) == c.err

\* What a consumer reads of the current visit.
Observed(c) == [path |-> Path(c), err |-> Err(c), info |-> Entry(c)]

----------------------------------------------------------------------------
\* New(fsys, root): the walker after construction.

\* Faulty variant: New leaves the error of cur unset.
NewCur_NoUsage == Visit(<<>>, "nil", Nil, 0, 0)

\* Walker.cur after New: a visit whose only set field is err.
NewCur == Visit(<<>>, "nil", errUsage, 0, 0)

\* Faulty variant: New drops the error of fs.Stat.
RootVisit_NoErr(r, stat) == Visit(r, infoDirEntry(stat), Nil, 0, 0)

\* The one visit New seeds the stack with, from the answer of fs.Stat.
RootVisit(r, stat) ==
    Visit(r, infoDirEntry(stat), IF stat = "err" THEN StatErr(r) ELSE Nil, 0, 0)

\* Walker.stack after New: a slice literal of one element.
NewStack(r, stat) == [arr |-> <<RootVisit(r, stat)>>, len |-> 1]

Init ==
    /\ root \in Roots
    /\ rootStat \in {"dir", "file", "err"}
    /\ fsys \in (IF rootStat = "dir" THEN Trees(root) ELSE {EmptyFS})
    /\ cur = NewCur
    /\ stack = NewStack(root, rootStat)
    /\ descend = FALSE
    /\ panicked = FALSE
    /\ ret = "none"
    /\ lastOp = "New"
    /\ out = <<>>
    /\ calls = <<<<"Stat", root>>>>
    /\ skips = <<>>
    /\ mutations = 0

----------------------------------------------------------------------------
\* Next.

\* The condition of the first if of Next evaluates info.IsDir() only when
\* descend is set and the error is nil; it panics on an entry without info.
NextPanics(d, c) == d /\ c.err = Nil /\ ~CanIsDir(c.info)

\* Faulty variant: the condition of the first if without the test of the error.
WillExpand_IgnoreErr(d, c) == d /\ IsDir(c.info)

\* The condition of the first if of Next.
WillExpand(d, c) == d /\ c.err = Nil /\ IsDir(c.info)

\* Faulty variant: no second visit after a ReadDir error.
Expanded_NoSecondVisit(s, c, rd) ==
    PushChildren(s, c.path, rd.ents, Len(rd.ents), s.len)

\* Faulty variant: the second visit marked like a newly pushed entry.
Expanded_FreshMarks(s, c, rd) ==
    LET pushed == PushChildren(s, c.path, rd.ents, Len(rd.ents), s.len)
    IN  IF rd.err # Nil
        THEN SliceAppend(pushed, Visit(c.path, c.info, rd.err, pushed.len, s.len))
        ELSE pushed

\* The stack after the body of the first if: the entries pushed last first,
\* then, on a ReadDir error, the current visit again with the error set.
Expanded(s, c, rd) ==
    LET pushed == PushChildren(s, c.path, rd.ents, Len(rd.ents), s.len)
    IN  IF rd.err # Nil
        THEN SliceAppend(pushed, [c EXCEPT !.err = rd.err])
        ELSE pushed

\* Faulty variant: Next leaves descend as it is when it finds the stack empty.
DescendAtEnd_Kept == descend

\* Walker.descend when Next finds the stack empty.
DescendAtEnd == FALSE

\* Walker.descend when Next has popped a visit.
DescendAfterPop == TRUE

WalkerNext ==
    /\ ~panicked
    /\ IF NextPanics(descend, cur)
       THEN /\ panicked' = TRUE
            /\ UNCHANGED <<cur, stack, descend, ret, out, calls>>
       ELSE LET expand == WillExpand(descend, cur)
                rd     == ReadDir(fsys, cur.path)
                s      == IF expand THEN Expanded(stack, cur, rd) ELSE stack
            IN  /\ calls' = IF expand THEN Append(calls, <<"ReadDir", cur.path>>)
                                      ELSE calls
                /\ IF s.len = 0
                   THEN /\ descend' = DescendAtEnd
                        /\ ret' = "false"
                        /\ stack' = s
                        /\ UNCHANGED <<cur, out>>
                   ELSE /\ cur' = s.arr[s.len]
                        /\ stack' = Reslice(s, s.len - 1)
                        /\ descend' = DescendAfterPop
                        /\ ret' = "true"
                        /\ out' = Append(out, Observed(s.arr[s.len]))
                /\ UNCHANGED panicked
    /\ lastOp' = "Next"
    /\ UNCHANGED <<root, rootStat, fsys, skips, mutations>>

----------------------------------------------------------------------------
\* SkipDir and SkipParent.

\* The record kept of one pruning call: the operation, the number of visits
\* emitted when it was called (0: before the first Next), what the last Next
\* had returned, and the stack length before and after.
SkipRecord(op, n1) ==
    [op |-> op, at |-> Len(out), ret |-> ret, n0 |-> stack.len, n1 |-> n1]

\* Faulty variant: SkipDir cuts the stack one above the mark of the visit.
SkipDirMark_Above(c) == c.skipDir + 1

\* Faulty variant: SkipDir re-slices to the parent's mark.
SkipDirMark_Parent(c) == c.skipPar

\* The length SkipDir re-slices the stack to.
SkipDirMark(c) == c.skipDir

\* Faulty variant: SkipParent re-slices to the directory's mark.
SkipParentMark_Dir(c) == c.skipDir

\* The length SkipParent re-slices the stack to.
SkipParentMark(c) == c.skipPar

\* Faulty variant: a pruning call leaves descend as it is.
DescendAfterSkip_Kept == descend

\* Walker.descend after SkipDir or SkipParent.
DescendAfterSkip == FALSE

\* w.descend = false; w.stack = w.stack[:k]: a k above the capacity panics
\* after descend has been cleared.
Prune(op, k) ==
    /\ ~panicked
    /\ Len(skips) < MaxSkips
    /\ descend' = DescendAfterSkip
    /\ IF k > Cap(stack)
       THEN /\ panicked' = TRUE
            /\ UNCHANGED <<stack, skips>>
       ELSE /\ stack' = Reslice(stack, k)
            /\ skips' = Append(skips, SkipRecord(op, k))
            /\ UNCHANGED panicked
    /\ lastOp' = op
    /\ UNCHANGED <<root, rootStat, fsys, cur, ret, out, calls, mutations>>

SkipDir == Prune("SkipDir", SkipDirMark(cur))

SkipParent == Prune("SkipParent", SkipParentMark(cur))

----------------------------------------------------------------------------
\* The tree changes behind the walker's back once the walk has ended: a
\* file is added to a directory of the tree.
Mutate ==
    /\ ret = "false"
    /\ mutations < MaxMutations
    /\ \E p \in DOMAIN fsys :
         \E x \in Names \ EntryNames(fsys[p].ents) :
            fsys' = AddFile(fsys, p, x)
    /\ mutations' = mutations + 1
    /\ lastOp' = "Mutate"
    /\ UNCHANGED <<root, rootStat, cur, stack, descend, panicked, ret, out, calls, skips>>

\* The operations of the walker, called in any order by one consumer.
Next ==
    \/ WalkerNext
    \/ SkipDir
    \/ SkipParent

Spec == Init /\ [][Next]_vars

\* A consumer that prunes at most once, while the walk is going on, and a
\* tree that changes once the walk has ended.
NextMutate ==
    \/ WalkerNext
    \/ (ret # "false" /\ skips = <<>> /\ SkipDir)
    \/ (ret # "false" /\ skips = <<>> /\ SkipParent)
    \/ Mutate

SpecMutate == Init /\ [][NextMutate]_vars

----------------------------------------------------------------------------
\* The tree as a consumer sees it, for stating the claims.

IsPrefix(a, b) == Len(a) <= Len(b) /\ a = SubSeq(b, 1, Len(a))

\* The visit of path p with error e.
Seen(p, info, e) == [path |-> p, err |-> e, info |-> info]

InfoOf(ent) == IF ent.dir THEN "dir" ELSE "file"

\* The paths of the tree: the root and every entry of every directory.
TreeNodes ==
    {root} \cup
    UNION {{Join(p, fsys[p].ents[i].name) : i \in 1..Len(fsys[p].ents)} : p \in DOMAIN fsys}

\* The directories of the tree whose listing fails.
FailingDirs == {p \in DOMAIN fsys : fsys[p].fail}

\* Stat of the root and every listing succeed.
NoErrors == rootStat # "err" /\ FailingDirs = {}

\* The depth-first pre-order of the subtree at path p: p, then the subtrees
\* of its entries in listing order.
RECURSIVE PreOrder(_, _), PreOrderOfEntries(_, _)
PreOrder(p, info) ==
    <<p>> \o (IF info = "dir" THEN PreOrderOfEntries(p, fsys[p].ents) ELSE <<>>)

PreOrderOfEntries(p, ents) ==
    IF ents = <<>> THEN <<>>
    ELSE PreOrder(Join(p, ents[1].name), InfoOf(ents[1]))
            \o PreOrderOfEntries(p, Tail(ents))

\* The paths of the visits emitted so far.
OutPaths == [i \in 1..Len(out) |-> out[i].path]

\* The walk of the subtree at p with no pruning: p, then p again with the
\* ReadDir error when its listing fails, then the walks of its entries.
RECURSIVE FullWalk(_, _), FullWalkOfEntries(_, _)
FullWalk(p, info) ==
    <<Seen(p, info, Nil)>>
    \o (IF info = "dir"
        THEN (IF fsys[p].fail THEN <<Seen(p, info, ReadDirErr(p))>> ELSE <<>>)
                \o FullWalkOfEntries(p, fsys[p].ents)
        ELSE <<>>)

FullWalkOfEntries(p, ents) ==
    IF ents = <<>> THEN <<>>
    ELSE FullWalk(Join(p, ents[1].name), InfoOf(ents[1]))
            \o FullWalkOfEntries(p, Tail(ents))

\* The whole walk with no pruning; a failed Stat leaves the one root visit.
WholeWalk ==
    IF rootStat = "err" THEN <<Seen(root, "nilinfo", StatErr(root))>>
    ELSE FullWalk(root, rootStat)

\* The indices of the visits of path p emitted so far.
VisitsOf(p) == {i \in 1..Len(out) : out[i].path = p}

----------------------------------------------------------------------------
\* C1: in a tree where Stat and every listing succeed, with no pruning call,
\* the paths emitted are at every moment a prefix of the depth-first
\* pre-order of the tree (root first, a directory before its entries, entries
\* in listing order, a whole subtree before the next sibling), every error is
\* nil, and Next returns false exactly when the pre-order is complete, every
\* node then having been emitted once.
C1_PreOrder ==
    (NoErrors /\ skips = <<>>) =>
        /\ IsPrefix(OutPaths, PreOrder(root, rootStat))
        /\ \A i \in 1..Len(out) : out[i].err = Nil
        /\ ret = "false" =>
            /\ OutPaths = PreOrder(root, rootStat)
            /\ {out[i].path : i \in 1..Len(out)} = TreeNodes
            /\ Len(out) = Cardinality(TreeNodes)

\* A finished walk, without errors or pruning, of a tree with a directory of
\* two entries and an entry two levels below the root.
C1_Witness ==
    /\ NoErrors /\ skips = <<>> /\ ret = "false"
    /\ \E p \in DOMAIN fsys : Len(fsys[p].ents) = 2
    /\ \E i \in 1..Len(out) : Len(out[i].path) = 2

\* C2: with no pruning call, a directory whose listing fails is emitted
\* exactly twice, on consecutive visits, first with a nil error and then with
\* the listing error; the entries returned with the error are walked after the
\* second visit, in listing order, and the rest of the tree after them: the
\* visits emitted are a prefix of the walk with the error visits, and the
\* whole of it when Next returns false.
C2_ErrorVisit ==
    (FailingDirs # {} /\ skips = <<>>) =>
        /\ IsPrefix(out, WholeWalk)
        /\ ret = "false" =>
            /\ out = WholeWalk
            /\ \A d \in FailingDirs :
                 \E i \in 1..(Len(out) - 1) :
                    /\ VisitsOf(d) = {i, i + 1}
                    /\ out[i].err = Nil
                    /\ out[i + 1].err = ReadDirErr(d)
                    /\ LET sub == FullWalkOfEntries(d, fsys[d].ents)
                       IN  SubSeq(out, i + 2, i + 1 + Len(sub)) = sub

\* A finished walk without pruning in which a failing directory returned an
\* entry and is followed by a later sibling.
C2_Witness ==
    /\ skips = <<>> /\ ret = "false"
    /\ \E d \in FailingDirs :
         /\ fsys[d].ents # <<>>
         /\ \E i \in 1..Len(out) :
              /\ out[i].path = d /\ out[i].err = ReadDirErr(d)
              /\ Under(out[i + 1].path, d)
         /\ d # root
         /\ ~Under(out[Len(out)].path, d) /\ out[Len(out)].path # d

----------------------------------------------------------------------------
\* Pruning calls, for stating the claims about them.

\* The pruning call s was made during a visit: after a Next that returned
\* true and before the following Next.
DuringVisit(s) == s.ret = "true"

\* The visit during which pruning call s was made.
VisitAt(s) == out[s.at]

\* The parent directory of the path p of an entry.
ParentOf(p) == IF Len(p) = 1 THEN root ELSE SubSeq(p, 1, Len(p) - 1)

\* p is the directory d or lies below it.
InSubtree(p, d) == p = d \/ Under(p, d)

\* The part of the walk w that follows the last visit in the subtree of d.
AfterSubtree(w, d) ==
    LET in == {j \in 1..Len(w) : InSubtree(w[j].path, d)}
        last == IF in = {} THEN 0 ELSE CHOOSE j \in in : \A k \in in : k <= j
    IN  SubSeq(w, last + 1, Len(w))

\* The visits emitted after visit number i.
OutAfter(i) == SubSeq(out, i + 1, Len(out))

\* The walk w without the visits after its first i that lie below d.
RECURSIVE WithoutLaterBelow(_, _, _, _)
WithoutLaterBelow(w, i, d, j) ==
    IF j > Len(w) THEN <<>>
    ELSE (IF j > i /\ Under(w[j].path, d) THEN <<>> ELSE <<w[j]>>)
            \o WithoutLaterBelow(w, i, d, j + 1)

----------------------------------------------------------------------------
\* C3: once Next has returned false, a further Next returns false again,
\* emits nothing and calls neither Stat nor ReadDir, whatever entries have
\* been added to the tree since (the consumer of SpecMutate calls only Next
\* once the walk has ended).
C3_StickyEnd ==
    [][ret = "false" => (ret' = "false" /\ out' = out /\ calls' = calls)]_vars

\* Next has been called, and has returned false, after an entry was added to
\* the directory that was the last visit of an unpruned walk.
C3_Witness ==
    /\ ret = "false" /\ lastOp = "Next" /\ mutations > 0
    /\ Len(out) > 0
    /\ cur.info = "dir"
    /\ cur.path \in DOMAIN fsys
    /\ Len(fsys[cur.path].ents) > 0
    /\ skips = <<>>

\* C4: after a SkipDir made during a visit of directory D (the first visit
\* or the one reporting the ReadDir error), no later visit lies below D,
\* whatever other calls follow; and when that SkipDir is the one pruning call
\* of the walk, the visits after it are what the unpruned walk emits after
\* the subtree of D: the later siblings of D with their subtrees, and the
\* rest of the tree, in the usual order.
C4_SkipDirOnDir ==
    /\ \A k \in 1..Len(skips) :
        (/\ skips[k].op = "SkipDir"
         /\ DuringVisit(skips[k])
         /\ VisitAt(skips[k]).info = "dir") =>
            \A j \in (skips[k].at + 1)..Len(out) :
                ~Under(out[j].path, VisitAt(skips[k]).path)
    /\ (/\ Len(skips) = 1
        /\ skips[1].op = "SkipDir"
        /\ DuringVisit(skips[1])
        /\ VisitAt(skips[1]).info = "dir") =>
            LET i == skips[1].at
                d == out[i].path
            IN  /\ IsPrefix(OutAfter(i), AfterSubtree(WholeWalk, d))
                /\ ret = "false" => OutAfter(i) = AfterSubtree(WholeWalk, d)

\* A finished walk in which SkipDir was called on the error visit of a
\* directory that had returned entries, and a later sibling was then emitted.
C4_Witness ==
    /\ Len(skips) = 1 /\ skips[1].op = "SkipDir" /\ DuringVisit(skips[1])
    /\ ret = "false"
    /\ VisitAt(skips[1]).info = "dir"
    /\ VisitAt(skips[1]).err # Nil
    /\ fsys[VisitAt(skips[1]).path].ents # <<>>
    /\ skips[1].n1 < skips[1].n0
    /\ Len(out) > skips[1].at

\* C5: after a SkipParent made during the visit of an entry v of directory
\* P (a file, a directory on its first visit or a directory on its error
\* visit), no later visit lies below v, whatever other calls follow; and when
\* that SkipParent is the one pruning call of the walk, no later visit lies
\* below P (no later entry of P, nothing below one), and the visits after it
\* are what the unpruned walk emits after the subtree of P: the later
\* siblings of P and of its ancestors, in the usual order.
C5_SkipParent ==
    /\ \A k \in 1..Len(skips) :
        (/\ skips[k].op = "SkipParent"
         /\ DuringVisit(skips[k])
         /\ VisitAt(skips[k]).path # root) =>
            \A j \in (skips[k].at + 1)..Len(out) :
                ~Under(out[j].path, VisitAt(skips[k]).path)
    /\ (/\ Len(skips) = 1
        /\ skips[1].op = "SkipParent"
        /\ DuringVisit(skips[1])
        /\ VisitAt(skips[1]).path # root) =>
            LET i == skips[1].at
                parent == ParentOf(out[i].path)
            IN  /\ \A j \in (i + 1)..Len(out) : ~Under(out[j].path, parent)
                /\ IsPrefix(OutAfter(i), AfterSubtree(WholeWalk, parent))
                /\ ret = "false" => OutAfter(i) = AfterSubtree(WholeWalk, parent)

\* A finished walk in which SkipParent, called on an entry of a directory
\* other than the root, discarded a later entry of that directory.
C5_Witness ==
    /\ Len(skips) = 1 /\ skips[1].op = "SkipParent" /\ DuringVisit(skips[1])
    /\ ret = "false"
    /\ Len(VisitAt(skips[1]).path) = 2
    /\ skips[1].n1 < skips[1].n0

\* C6: when SkipDir is the one pruning call of the walk and is made during
\* the visit of a plain file, the stack keeps its length (and so its
\* elements), and the visits emitted are those of the unpruned walk, the
\* later siblings of the file included.
C6_SkipDirOnFile ==
    (/\ Len(skips) = 1
     /\ skips[1].op = "SkipDir"
     /\ DuringVisit(skips[1])
     /\ VisitAt(skips[1]).info = "file") =>
        /\ skips[1].n1 = skips[1].n0
        /\ IsPrefix(out, WholeWalk)
        /\ ret = "false" => out = WholeWalk

\* A finished walk in which SkipDir was called on a file and the next entry
\* of the same directory was emitted afterwards.
C6_Witness ==
    /\ Len(skips) = 1 /\ skips[1].op = "SkipDir" /\ DuringVisit(skips[1])
    /\ ret = "false"
    /\ VisitAt(skips[1]).info = "file"
    /\ Len(out) > skips[1].at
    /\ Len(VisitAt(skips[1]).path) = 2
    /\ ParentOf(out[skips[1].at + 1].path) = ParentOf(VisitAt(skips[1]).path)
    /\ Len(out[skips[1].at + 1].path) = 2

\* C7 as stated: when SkipParent is the one pruning call of the walk and is
\* made during the visit of a plain file, the visits emitted are those of the
\* unpruned walk.
C7_Original ==
    (/\ Len(skips) = 1
     /\ skips[1].op = "SkipParent"
     /\ DuringVisit(skips[1])
     /\ VisitAt(skips[1]).info = "file") =>
        /\ IsPrefix(out, WholeWalk)
        /\ ret = "false" => out = WholeWalk

\* C7 as amended: when SkipParent is the one pruning call of the walk and is
\* made during the visit of a plain file, the visits emitted are those of the
\* unpruned walk without the later entries of the file's directory and what
\* lies below them; every other visit is emitted as without the call.
C7_SkipParentOnFile ==
    (/\ Len(skips) = 1
     /\ skips[1].op = "SkipParent"
     /\ DuringVisit(skips[1])
     /\ VisitAt(skips[1]).info = "file") =>
        LET i == skips[1].at
            kept == WithoutLaterBelow(WholeWalk, i, ParentOf(out[i].path), 1)
        IN  /\ IsPrefix(out, kept)
            /\ ret = "false" => out = kept

\* A finished walk in which SkipParent, called on a file, discarded a later
\* entry of the file's directory.
C7_Witness ==
    /\ Len(skips) = 1 /\ skips[1].op = "SkipParent" /\ DuringVisit(skips[1])
    /\ ret = "false"
    /\ VisitAt(skips[1]).info = "file"
    /\ skips[1].n1 < skips[1].n0
    /\ Len(out) < Len(WholeWalk)

\* C8: a directory on whose first visit (nil error, before any read) SkipDir
\* or SkipParent was called is never read: no ReadDir call is made for it in
\* the rest of the walk, whatever other calls follow.
C8_NoReadAfterSkip ==
    \A k \in 1..Len(skips) :
        (/\ DuringVisit(skips[k])
         /\ VisitAt(skips[k]).info = "dir"
         /\ VisitAt(skips[k]).err = Nil) =>
            \A c \in 1..Len(calls) : calls[c] # <<"ReadDir", VisitAt(skips[k]).path>>

\* A finished walk in which a directory holding entries was pruned on its
\* first visit.
C8_Witness ==
    /\ ret = "false" /\ lastOp = "Next"
    /\ \E k \in 1..Len(skips) :
         /\ DuringVisit(skips[k])
         /\ VisitAt(skips[k]).info = "dir"
         /\ VisitAt(skips[k]).err = Nil
         /\ fsys[VisitAt(skips[k]).path].ents # <<>>
         /\ Len(out) > skips[k].at

\* C9: when Stat of the root fails (and no pruning call precedes the first
\* Next), the walk is exactly one visit: once Next has been called, the
\* visits emitted are the one of the root path with the Stat error, whatever
\* the number of further Next calls; ReadDir is never called, and nothing
\* panics.
C9_RootStatError ==
    (/\ rootStat = "err"
     /\ \A k \in 1..Len(skips) : skips[k].ret # "none") =>
        /\ calls = <<<<"Stat", root>>>>
        /\ ~panicked
        /\ ret # "none" =>
            /\ Len(out) = 1
            /\ out[1].path = root
            /\ out[1].err = StatErr(root)

\* After a failed Stat, Next has returned true and then false.
C9_Witness ==
    /\ rootStat = "err"
    /\ skips = <<>>
    /\ ret = "false" /\ lastOp = "Next"
    /\ Len(out) = 1

\* C10: until the first call of Next, Err returns the usage error; once a
\* Next has returned true, Err returns nil, the error of Stat on the root or
\* the error of a ReadDir, never the usage error.
C10_UsageError ==
    /\ ret = "none" => Err(cur) = errUsage
    /\ Len(out) > 0 =>
        /\ Err(cur) # errUsage
        /\ Err(cur) \in {Nil, StatErr(root)} \cup {ReadDirErr(p) : p \in DOMAIN fsys}

\* Err returns a ReadDir error on the second visit of a failing directory.
C10_Witness ==
    /\ ret = "true" /\ lastOp = "Next"
    /\ Len(out) > 1
    /\ Err(cur) = ReadDirErr(Path(cur))

\* C11: once Next has returned false the walker stays exhausted under every
\* later SkipDir, SkipParent and Next call: the stack stays empty and Next
\* keeps returning false.
C11_StaysExhausted ==
    [][ret = "false" => (ret' = "false" /\ stack'.len = 0)]_vars

----------------------------------------------------------------------------
\* The rest of a walk as a function of the walker: the visits that calling
\* Next until it returns false emits from current visit c, stack st and
\* descend flag d over the tree fsys.
RECURSIVE Drain(_, _, _)
Drain(c, st, d) ==
    LET s == IF WillExpand(d, c) THEN Expanded(st, c, ReadDir(fsys, c.path))
                                 ELSE st
    IN  IF s.len = 0
        THEN <<>>
        ELSE <<Observed(s.arr[s.len])>>
                \o Drain(s.arr[s.len], Reslice(s, s.len - 1), DescendAfterPop)

\* The rest of the walk when SkipDir, then when SkipParent, is called on
\* current visit c over stack st.
DrainAfterSkipDir(c, st) ==
    Drain(c, Reslice(st, SkipDirMark(c)), DescendAfterSkip)

DrainAfterSkipParent(c, st) ==
    Drain(c, Reslice(st, SkipParentMark(c)), DescendAfterSkip)

\* The walker is on the first visit of a directory whose listing fails.
OnFailingDir ==
    /\ lastOp = "Next"
    /\ ret = "true"
    /\ cur.err = Nil
    /\ IsDir(cur.info)
    /\ ReadDir(fsys, cur.path).err # Nil

\* The stack and the current visit once Next has moved from the first visit
\* of a failing directory to its second visit.
StackAtErrorVisit ==
    LET s == Expanded(stack, cur, ReadDir(fsys, cur.path))
    IN  Reslice(s, s.len - 1)

ErrorVisit ==
    LET s == Expanded(stack, cur, ReadDir(fsys, cur.path))
    IN  s.arr[s.len]

\* C12: on a directory whose listing fails, SkipDir (SkipParent) called on
\* the second, error visit leaves the same visits to come as SkipDir
\* (SkipParent) called on the first visit.
C12_SamePruneAfterError ==
    OnFailingDir =>
        /\ ErrorVisit.err = ReadDirErr(cur.path)
        /\ DrainAfterSkipDir(ErrorVisit, StackAtErrorVisit)
              = DrainAfterSkipDir(cur, stack)
        /\ DrainAfterSkipParent(ErrorVisit, StackAtErrorVisit)
              = DrainAfterSkipParent(cur, stack)

\* A failing directory that listed an entry before the error and has a
\* sibling pending: each prune has something to drop.
C12_Witness ==
    /\ OnFailingDir
    /\ ReadDir(fsys, cur.path).ents # <<>>
    /\ stack.len > cur.skipPar
    /\ DrainAfterSkipParent(cur, stack) # DrainAfterSkipDir(cur, stack)
    /\ Drain(ErrorVisit, StackAtErrorVisit, DescendAfterPop)
          # DrainAfterSkipDir(cur, stack)

----------------------------------------------------------------------------
\* Next has just returned true.
AfterSuccessfulNext == lastOp = "Next" /\ ret = "true"

\* C13: right after a Next that returned true the marks of the current visit
\* satisfy skipPar <= skipDir <= len(stack), and the item at 0-based
\* position i of the stack satisfies skipPar <= skipDir <= i; SkipDir or
\* SkipParent called then does not lengthen the stack.
C13_MarksWithinStack ==
    AfterSuccessfulNext =>
        /\ cur.skipPar <= cur.skipDir
        /\ cur.skipDir <= stack.len
        /\ \A i \in 0..(stack.len - 1) :
              /\ stack.arr[i + 1].skipPar <= stack.arr[i + 1].skipDir
              /\ stack.arr[i + 1].skipDir <= i
        /\ Reslice(stack, SkipDirMark(cur)).len <= stack.len
        /\ Reslice(stack, SkipParentMark(cur)).len <= stack.len

\* A visit with two items pending behind it, the upper one with different
\* marks: the error visit of a directory that listed two entries.
C13_Witness ==
    /\ AfterSuccessfulNext
    /\ stack.len = 2
    /\ stack.arr[2].skipPar < stack.arr[2].skipDir
    /\ cur.skipDir < stack.len

----------------------------------------------------------------------------
\* A step in which Next lists the current directory: the one step that
\* records a ReadDir call.
ExpansionStep == calls' = Append(calls, <<"ReadDir", cur.path>>)

\* The entries that the expansion of the current directory pushes.
ListedEntries == ReadDir(fsys, cur.path).ents

\* The j-th visit that an expansion step pushes: it goes to 0-based stack
\* position len(stack) + j - 1, and a pop does not clear the slot.
PushedChild(j) == stack'.arr[stack.len + j]

\* C14 as stated: every child of one expansion carries skipDir equal to the
\* stack length before any push of the expansion, and skipPar equal to the
\* stack length at the start of the expansion.
C14_Original ==
    [][ExpansionStep =>
          \A j \in 1..Len(ListedEntries) :
              /\ PushedChild(j).skipDir = stack.len
              /\ PushedChild(j).skipPar = stack.len]_vars

\* C14 amended: the j-th child pushed in one expansion is the j-th entry from
\* the end of the listing, and carries skipDir equal to the stack length at
\* its own push (the length at the start of the expansion plus j - 1) and
\* skipPar equal to the stack length at the start of the expansion.
C14_ChildMarks ==
    [][ExpansionStep =>
          \A j \in 1..Len(ListedEntries) :
              /\ PushedChild(j).path
                    = Join(cur.path, ListedEntries[Len(ListedEntries) - j + 1].name)
              /\ PushedChild(j).err = Nil
              /\ PushedChild(j).skipDir = stack.len + j - 1
              /\ PushedChild(j).skipPar = stack.len]_vars

\* Next has listed a directory of two entries and is on the first of them:
\* its marks differ by one, and its sibling below carries equal marks.
C14_Witness ==
    /\ AfterSuccessfulNext
    /\ cur.err = Nil
    /\ Len(calls) > 1
    /\ calls[Len(calls)] = <<"ReadDir", ParentOf(cur.path)>>
    /\ cur.skipDir = cur.skipPar + 1
    /\ stack.len = cur.skipDir
    /\ stack.arr[stack.len].skipDir = cur.skipPar
    /\ stack.arr[stack.len].skipPar = cur.skipPar

----------------------------------------------------------------------------
\* The number of ReadDir calls made so far on directory p.
ReadDirCount(p) ==
    Cardinality({i \in 1..Len(calls) : calls[i] = <<"ReadDir", p>>})

\* C15: under every sequence of Next, SkipDir and SkipParent calls ReadDir is
\* called at most once on each directory path; a directory visited with its
\* ReadDir error has had its one call, and no Next after that visit lists it
\* again. Only Next calls ReadDir, so the states right after a Next are the
\* ones to look at.
C15_ListedAtMostOnce ==
    lastOp = "Next" =>
        /\ \A i \in 1..Len(calls) : ReadDirCount(calls[i][2]) <= 1
        /\ \A i \in 1..Len(out) :
              out[i].err = ReadDirErr(out[i].path) => ReadDirCount(out[i].path) = 1

\* A walk without prunes that has ended after the error visit of a failing
\* directory: Next was called on that visit with descend set.
C15_Witness ==
    /\ ret = "false"
    /\ skips = <<>>
    /\ \E i \in 1..Len(out) :
          /\ out[i].err = ReadDirErr(out[i].path)
          /\ IsDir(out[i].info)
          /\ i < Len(out)

----------------------------------------------------------------------------
\* C16: SkipDir and SkipParent never lengthen the stack, so SkipDir called
\* after SkipParent in the same visit leaves the stack as SkipParent left it,
\* and the walk emits no visit after a SkipParent that emptied the stack.
C16_NeverResurrects ==
    /\ \A k \in 1..Len(skips) : skips[k].n1 <= skips[k].n0
    /\ \A k \in 1..Len(skips) :
          (skips[k].op = "SkipParent" /\ skips[k].n1 = 0) => Len(out) = skips[k].at

----------------------------------------------------------------------------
\* C17: SkipDir or SkipParent called after New and before the first Next does
\* not discard the root: until the first Next the stack holds the root visit
\* alone, and the first Next returns true with Path equal to the root.
C17_RootSurvivesEarlySkip ==
    /\ ret = "none" =>
          /\ stack.len = 1
          /\ stack.arr[1].path = root
    /\ ret # "none" =>
          /\ Len(out) >= 1
          /\ out[1].path = root

----------------------------------------------------------------------------
\* a is a subsequence of b: a is what is left of b after dropping some of
\* its elements, order kept.
RECURSIVE IsSubseq(_, _)
IsSubseq(a, b) ==
    IF a = <<>> THEN TRUE
    ELSE IF b = <<>> THEN FALSE
    ELSE IF Head(a) = Head(b) THEN IsSubseq(Tail(a), Tail(b))
    ELSE IsSubseq(a, Tail(b))

\* C18: whatever SkipDir and SkipParent calls the consumer makes between Next
\* calls, the visits emitted (path, error, entry kind) are a subsequence of
\* the visits of the walk without pruning over the same tree: no visit is
\* new, none is repeated, and the order is kept. The visits emitted change
\* only when Next returns true, so the states right after that are the ones
\* to look at, and the newest visit the one that could repeat an older one.
C18_Refinement ==
    AfterSuccessfulNext =>
        /\ IsSubseq(out, WholeWalk)
        /\ \A i \in 1..(Len(out) - 1) : out[i] # out[Len(out)]

\* A pruned walk that has ended, dropped a visit in the middle and went on.
C18_Witness ==
    /\ ret = "false"
    /\ skips # <<>>
    /\ Len(out) < Len(WholeWalk)
    /\ ~IsPrefix(out, WholeWalk)

----------------------------------------------------------------------------
\* A consumer in its loop over Next: it calls SkipDir and SkipParent during
\* visits, between two Next calls, in any order, and it keeps calling Next:
\* a Next call that changes the walker is not put off forever. Calling the
\* same prune twice in a row re-slices to the same length and is left out.
\* The tree does not change.
NextInLoop ==
    \/ WalkerNext
    \/ (ret = "true" /\ lastOp # "SkipDir" /\ SkipDir)
    \/ (ret = "true" /\ lastOp # "SkipParent" /\ SkipParent)

SpecFair == Init /\ [][NextInLoop]_vars /\ WF_vars(WalkerNext)

\* The most visits a walk of the tree emits: one for each node and one more
\* for each directory whose listing fails.
MaxVisits == Cardinality(TreeNodes) + Cardinality(FailingDirs)

\* C19: over a tree that does not change, whatever the consumer does between
\* Next calls, Next eventually returns false, and it has returned true at
\* most (number of nodes + number of failing directories) times.
C19_Terminates ==
    /\ [](Len(out) <= MaxVisits)
    /\ <>(ret = "false")

\* A walk that ended after the full count of visits, error visit included.
C19_Witness ==
    /\ ret = "false"
    /\ FailingDirs # {}
    /\ Len(out) = MaxVisits
    /\ MaxVisits >= 3

====
